---- MODULE Spec2Model ----
(***************************************************************************)
(* The synchronisation engine of aws_ui.py: the monitor thread             *)
(* (s3_monitor_thread), the backup thread (s3_backup_thread), the metadata *)
(* store (save_backup_metadata / load_backup_metadata), and the Start/Stop *)
(* buttons that create and cancel the threads.                             *)
(*                                                                         *)
(* Fault model: listing and download calls may raise, a downloaded file    *)
(* may have a size other than the listed one, the hash of a file may fail  *)
(* to compute, a move into .versions may fail, and opening the metadata    *)
(* file for writing may fail.  Creating directories is taken to succeed.   *)
(***************************************************************************)
EXTENDS Integers, Sequences, FiniteSets, TLC

\* ---------------------------------------------------------------- bounds
MaxCycles == 2      \* cycles one thread runs
MaxTasks == 2       \* threads created in one session
MaxChanges == 1     \* changes made to the bucket by its owner
MaxRestarts == 1    \* restarts of the application process
MaxFaults == 3      \* calls that fail (network, file system) in one run
EscCycles == 5      \* cycles one thread runs when only the listing fails
EscFaults == 5      \* listing requests that fail in such a run
DoublingCycles == 1 \* cycles one thread runs in the run with three objects
DoublingFaults == 7 \* downloads and listing requests that fail in such a run
PressCycles == 1    \* cycles of a thread while the buttons are pressed freely
MaxNaps == 2        \* iterations of the backup's wait loop followed one by one
MaxStamp == 2       \* LastModified values of one object
PageSize == 1       \* objects on one page of the listing

\* ------------------------------------------------------- program constants
max_retries == 3
monitor_max_errors == 5
backup_max_errors == 3
monitor_interval_cap == 300
backup_interval_cap == 60

Modes == {"monitor", "backup"}
\* the session logs: one per mode and main_log
LogKeys == Modes \cup {"main"}
TaskIds == 1..MaxTasks

\* Object keys as path components; the listing returns them in this order.
KeyOrder == << <<"x", "f.txt">>, <<"y", "f.txt">>, <<"z", "g.txt">> >>
Keys == {KeyOrder[i] : i \in 1..Len(KeyOrder)}
\* the objects of the bucket, where two are enough
SmallBucket == {KeyOrder[1], KeyOrder[2]}
Etags == {1, 2}
Sizes == {1, 2}
Roots == {"r1", "r2"}
\* the folder typed into the form of a session that runs one thread, and the
\* folders of a session that runs both modes side by side
local_folder == "r1"
local_monitor_folder == "r1"
local_backup_folder == "r2"
\* the number inputs' default values (lines 571, 620)
s3_monitor_interval == 60
s3_backup_interval == 10

\* ------------------------------------------------------------ Python values
\* A LastModified value is a datetime when it comes from the listing and a
\* string when it comes out of a JSON document; the two never compare equal.
DateTime(v) == [ty |-> "datetime", v |-> v]
Str(v) == [ty |-> "str", v |-> v]
None == [ty |-> "none", v |-> 0]

EmptyMap == [k \in {} |-> None]
MapPut(m, k, v) == [x \in (DOMAIN m) \cup {k} |-> IF x = k THEN v ELSE m[x]]
MapDel(m, k) == [x \in (DOMAIN m) \ {k} |-> m[x]]
\* dict.update
MapUpdate(m, n) == [x \in (DOMAIN m) \cup (DOMAIN n) |-> IF x \in DOMAIN n THEN n[x] ELSE m[x]]

Min(a, b) == IF a < b THEN a ELSE b

RECURSIVE Pow2(_)
Pow2(n) == IF n = 0 THEN 1 ELSE 2 * Pow2(n - 1)

\* os.path.basename of the relative path of a key (the prefix is empty)
BaseName(k) == k[Len(k)]

\* ------------------------------------------------------------------- state
VARIABLES
    remote,          \* the bucket: key -> [lm, etag, size]
    changes,         \* changes made to the bucket so far
    restarts,        \* process restarts so far
    faults,          \* calls the environment made fail so far
    now,             \* datetime.now(), in seconds
    stopEvent,       \* s3_monitor_stop_event / s3_backup_stop_event: is_set()
    monitorLast,     \* st.session_state['s3_monitor_last']
    backupMetadata,  \* st.session_state['backup_metadata']: which dict it refers to
    files,           \* root -> (key -> local file)
    versions,        \* root -> (archive name -> file) of .versions/
    metaFile,        \* root -> content of .backup_metadata.json
    tasks,           \* the threads: id -> local variables and position
    log              \* mode -> the last line appended to the mode's log

vars == <<remote, changes, restarts, faults, now, stopEvent, monitorLast, backupMetadata,
          files, versions, metaFile, tasks, log>>

\* --------------------------------------------------------- metadata store
Absent == [st |-> "absent", bucket |-> "", last_backup |-> 0, files |-> EmptyMap]
\* what a json.dump that raised half way leaves behind: not parseable
Truncated == [st |-> "truncated", bucket |-> "", last_backup |-> 0, files |-> EmptyMap]
Document(b, at, f) == [st |-> "doc", bucket |-> b, last_backup |-> at, files |-> f]
\* files that parse to something else than the document: an object without
\* 'files' ({"bucket": ...}), an array ([]), the value null
Malformed(shape) == [st |-> shape, bucket |-> "", last_backup |-> 0, files |-> EmptyMap]
Shapes == {"nofiles", "array", "null"}

\* json.dump raises TypeError on a value that is no JSON type: a datetime
JsonSerializable(f) == \A k \in DOMAIN f : f[k].last_modified.ty # "datetime"

\* save_backup_metadata: the file it leaves.  opened = FALSE: makedirs or open raised.
save_backup_metadata(old, bucket, f, opened) ==
    IF ~opened THEN old
    ELSE IF JsonSerializable(f) THEN Document(bucket, now, f)
    ELSE Truncated

\* load_backup_metadata: what json.load returned, or {} when the file is
\* absent or unparseable.  ty: the Python type of the value
load_backup_metadata(mf) ==
    IF mf.st = "doc" THEN [ty |-> "dict", hasFiles |-> TRUE, files |-> mf.files]
    ELSE IF mf.st = "array" THEN [ty |-> "list", hasFiles |-> FALSE, files |-> EmptyMap]
    ELSE IF mf.st = "null" THEN [ty |-> "NoneType", hasFiles |-> FALSE, files |-> EmptyMap]
    ELSE [ty |-> "dict", hasFiles |-> FALSE, files |-> EmptyMap]

\* mutant: a file that is not larger than the listed size is accepted
validate_file_integrity_at_most(fs, k, expected_size) ==
    k \in DOMAIN fs /\ fs[k].size <= expected_size

\* mutant: the size is not compared
validate_file_integrity_exists(fs, k, expected_size) ==
    k \in DOMAIN fs

\* validate_file_integrity
validate_file_integrity(fs, k, expected_size) ==
    k \in DOMAIN fs /\ fs[k].size = expected_size

\* calculate_file_hash of a readable file
calculate_file_hash(f) == [ty |-> "str", v |-> 10 * f.etag + f.size]

\* ---------------------------------------------------------------- listing
BucketKeys == SelectSeq(KeyOrder, LAMBDA k : k \in DOMAIN remote)
NumPages == (Len(BucketKeys) + PageSize - 1) \div PageSize
PageKeys(p) == SubSeq(BucketKeys, (p - 1) * PageSize + 1, Min(p * PageSize, Len(BucketKeys)))
\* one entry of page['Contents']
ObjRecord(k) == [Key |-> k, LastModified |-> DateTime(remote[k].lm),
                 ETag |-> remote[k].etag, Size |-> remote[k].size]
PageContents(p) == [i \in 1..Len(PageKeys(p)) |-> ObjRecord(PageKeys(p)[i])]

\* --------------------------------------------------------- change detector
\* mutant: the timestamp is stored as its ISO string
FullEntry_isoformat(obj, h, at, cnt) ==
    [kind |-> "dict", last_modified |-> Str(obj.LastModified.v), etag |-> obj.ETag,
     size |-> obj.Size, hash |-> h, at |-> at, backup_count |-> cnt]

\* the dict stored for a key after a verified download (lines 174-180, 339-346)
FullEntry(obj, h, at, cnt) ==
    [kind |-> "dict", last_modified |-> obj.LastModified, etag |-> obj.ETag,
     size |-> obj.Size, hash |-> h, at |-> at, backup_count |-> cnt]
\* an entry of an older document: the bare timestamp
LegacyEntry(ts) ==
    [kind |-> "legacy", last_modified |-> ts, etag |-> 0,
     size |-> 0, hash |-> None, at |-> 0, backup_count |-> 0]

\* mutant: the stored size is compared as well
monitor_reason_size(last, obj) ==
    IF obj.Key \notin DOMAIN last THEN "new file"
    ELSE LET stored_info == last[obj.Key] IN
         IF stored_info.kind = "dict"
         THEN IF \/ stored_info.last_modified # obj.LastModified
                 \/ stored_info.etag # obj.ETag
                 \/ stored_info.size # obj.Size
              THEN "file modified" ELSE "unchanged"
         ELSE IF stored_info.last_modified # obj.LastModified
              THEN "file modified (legacy check)" ELSE "unchanged"

\* mutant: both the timestamp and the ETag must differ
monitor_reason_and(last, obj) ==
    IF obj.Key \notin DOMAIN last THEN "new file"
    ELSE LET stored_info == last[obj.Key] IN
         IF stored_info.kind = "dict"
         THEN IF stored_info.last_modified # obj.LastModified /\ stored_info.etag # obj.ETag
              THEN "file modified" ELSE "unchanged"
         ELSE IF stored_info.last_modified # obj.LastModified
              THEN "file modified (legacy check)" ELSE "unchanged"

\* s3_monitor_thread: file_changed and reason
monitor_reason(last, obj) ==
    IF obj.Key \notin DOMAIN last THEN "new file"
    ELSE LET stored_info == last[obj.Key] IN
         IF stored_info.kind = "dict"
         THEN IF stored_info.last_modified # obj.LastModified \/ stored_info.etag # obj.ETag
              THEN "file modified" ELSE "unchanged"
         ELSE IF stored_info.last_modified # obj.LastModified
              THEN "file modified (legacy check)" ELSE "unchanged"
file_changed(last, obj) == monitor_reason(last, obj) # "unchanged"

\* mutant: the branches of the comparison are swapped
backup_reason_swapped(history, obj) ==
    IF obj.Key \in DOMAIN history
    THEN LET stored_info == history[obj.Key] IN
         IF stored_info.kind = "dict"
         THEN IF stored_info.last_modified = obj.LastModified /\ stored_info.etag = obj.ETag
              THEN "file modified" ELSE "unchanged"
         ELSE IF stored_info.last_modified = obj.LastModified
              THEN "unchanged" ELSE "file modified (legacy)"
    ELSE "new file"

\* s3_backup_thread: needs_backup and backup_reason
backup_reason(history, obj) ==
    IF obj.Key \in DOMAIN history
    THEN LET stored_info == history[obj.Key] IN
         IF stored_info.kind = "dict"
         THEN IF stored_info.last_modified = obj.LastModified /\ stored_info.etag = obj.ETag
              THEN "unchanged" ELSE "file modified"
         ELSE IF stored_info.last_modified = obj.LastModified
              THEN "unchanged" ELSE "file modified (legacy)"
    ELSE "new file"
\* mutant: needs_backup starts out False, so a key without an entry is skipped
needs_backup_known(history, obj) ==
    obj.Key \in DOMAIN history /\ backup_reason(history, obj) # "unchanged"
needs_backup(history, obj) == backup_reason(history, obj) # "unchanged"

\* classify of the design: New, Modified or Unchanged
Classify(mode, m, obj) ==
    LET r == IF mode = "monitor" THEN monitor_reason(m, obj) ELSE backup_reason(m, obj) IN
    IF r = "new file" THEN "New" ELSE IF r = "unchanged" THEN "Unchanged" ELSE "Modified"

\* ------------------------------------------------------------------ threads
\* Bookkeeping of the cycle a thread is in (not program state).
NewCycle(entries) ==
    [seq     |-> [k \in Keys |-> 0],       \* retry loops entered, per key
     fetched |-> {},                       \* keys download_file was called for
     cls     |-> [k \in Keys |-> "none"],  \* classification, per key
     failed  |-> {},                       \* keys logged as failed
     reported |-> EmptyMap,                \* key -> the exception in its failure line
     unversioned |-> {},                   \* keys whose move into .versions failed
     listfail |-> FALSE,                   \* a request for a page of the listing raised
     archived |-> EmptyMap,                \* key -> the file moved into .versions
     overslept |-> 0,                      \* seconds of time.sleep calls that ended
                                           \* with the stop event set, since a call
                                           \* was last entered with the event clear
     napClear |-> TRUE,                    \* the last time.sleep call was entered
                                           \* with the stop event clear
     error   |-> FALSE,                    \* ended by a cycle-level exception
     cut     |-> FALSE,                    \* a stop request cut it short
     quiet   |-> TRUE,                     \* no bucket change since it began
     saved   |-> "no",                     \* outcome of its metadata write
     start   |-> entries]                  \* the entries when it began
NoPrev == [ran |-> FALSE, clean |-> FALSE, quiet |-> FALSE, saved |-> "no"]

NoTask ==
    [mode |-> "none", root |-> "", bucket |-> "", interval |-> 0, pc |-> "none",
     page |-> 0, objs |-> <<>>, idx |-> 0, attempt |-> 0, left |-> 0,
     consecutive_errors |-> 0, backup_count |-> 0, backup_history |-> EmptyMap,
     cycles |-> 0, streak |-> 0, cyc |-> NewCycle(EmptyMap), prev |-> NoPrev]

Live(t) == tasks[t].pc \notin {"none", "done", "crashed"}
max_errors(mode) == IF mode = "monitor" THEN monitor_max_errors ELSE backup_max_errors
interval_cap(mode) == IF mode = "monitor" THEN monitor_interval_cap ELSE backup_interval_cap

\* the in-memory mapping a thread classifies against and commits to
Entries(t) == IF tasks[t].mode = "monitor" THEN monitorLast ELSE tasks[t].backup_history

\* the dict st.session_state['backup_metadata'] refers to
InitialDict == [kind |-> "initial", id |-> 0]
MonitorDict == [kind |-> "monitor", id |-> 0]
HistoryDict(t) == [kind |-> "history", id |-> t]
Deref(ref) ==
    IF ref.kind = "monitor" THEN monitorLast
    ELSE IF ref.kind = "history" THEN tasks[ref.id].backup_history
    ELSE EmptyMap

Line(ev, t, k) == [ev |-> ev, task |-> t, key |-> k]
NoLine == Line("", 0, <<>>)

Init ==
    /\ remote = [k \in SmallBucket |-> [lm |-> 1, etag |-> 1, size |-> 1]]
    /\ changes = 0
    /\ restarts = 0
    /\ faults = 0
    /\ now = 0
    /\ stopEvent = [m \in Modes |-> FALSE]
    /\ monitorLast = EmptyMap
    /\ backupMetadata = InitialDict
    /\ files = [r \in Roots |-> EmptyMap]
    /\ versions = [r \in Roots |-> EmptyMap]
    /\ metaFile = [r \in Roots |-> Absent]
    /\ tasks = [t \in TaskIds |-> NoTask]
    /\ log = [m \in LogKeys |-> NoLine]

\* the application is started on a root that holds a metadata file of any
\* kind: none, one cut off by a failed write, or one of another shape
InitStartup ==
    /\ remote = [k \in SmallBucket |-> [lm |-> 1, etag |-> 1, size |-> 1]]
    /\ changes = 0
    /\ restarts = 0
    /\ faults = 0
    /\ now = 0
    /\ stopEvent = [m \in Modes |-> FALSE]
    /\ monitorLast = EmptyMap
    /\ backupMetadata = InitialDict
    /\ files = [r \in Roots |-> EmptyMap]
    /\ versions = [r \in Roots |-> EmptyMap]
    /\ \E found \in {Absent, Truncated} \cup {Malformed(sh) : sh \in Shapes} :
           metaFile = [r \in Roots |-> IF r = local_folder THEN found ELSE Absent]
    /\ tasks = [t \in TaskIds |-> NoTask]
    /\ log = [m \in LogKeys |-> NoLine]

\* a bucket with three objects
InitDoubling ==
    /\ remote = [k \in Keys |-> [lm |-> 1, etag |-> 1, size |-> 1]]
    /\ changes = 0
    /\ restarts = 0
    /\ faults = 0
    /\ now = 0
    /\ stopEvent = [m \in Modes |-> FALSE]
    /\ monitorLast = EmptyMap
    /\ backupMetadata = InitialDict
    /\ files = [r \in Roots |-> EmptyMap]
    /\ versions = [r \in Roots |-> EmptyMap]
    /\ metaFile = [r \in Roots |-> Absent]
    /\ tasks = [t \in TaskIds |-> NoTask]
    /\ log = [m \in LogKeys |-> NoLine]

\* the folder holds the files of the bucket and a document of the older
\* format: for each key the bare timestamp, a string as JSON has no other
\* type for it, equal to the object's LastModified or not
InitLegacy ==
    /\ remote = [k \in SmallBucket |-> [lm |-> 1, etag |-> 1, size |-> 1]]
    /\ changes = 0
    /\ restarts = 0
    /\ faults = 0
    /\ now = 0
    /\ stopEvent = [m \in Modes |-> FALSE]
    /\ monitorLast = EmptyMap
    /\ backupMetadata = InitialDict
    /\ files = [r \in Roots |-> IF r = local_folder
                                THEN [k \in SmallBucket |-> [etag |-> 1, size |-> 1]]
                                ELSE EmptyMap]
    /\ versions = [r \in Roots |-> EmptyMap]
    /\ \E f \in [SmallBucket -> {LegacyEntry(Str(ts)) : ts \in 1..MaxStamp}] :
           metaFile = [r \in Roots |-> IF r = local_folder THEN Document("bucket", 0, f)
                                       ELSE Absent]
    /\ tasks = [t \in TaskIds |-> NoTask]
    /\ log = [m \in LogKeys |-> NoLine]

\* ---- the buttons
\* "Start S3 Monitor" / "Start Scheduled Backup (S3)"
StartPress(m, folder, bucket, iv) ==
    /\ stopEvent' = [stopEvent EXCEPT ![m] = FALSE]
    /\ IF folder # "" /\ bucket # ""
       THEN /\ \E t \in TaskIds : tasks[t].pc = "none"
            /\ LET t == CHOOSE i \in TaskIds :
                          tasks[i].pc = "none" /\ \A j \in TaskIds : tasks[j].pc = "none" => i <= j
               IN tasks' = [tasks EXCEPT ![t] =
                     [NoTask EXCEPT !.mode = m, !.root = folder, !.bucket = bucket,
                                  !.interval = iv, !.pc = "init"]]
       ELSE UNCHANGED tasks
    /\ UNCHANGED <<remote, changes, restarts, faults, now, monitorLast, backupMetadata,
                   files, versions, metaFile, log>>

\* "Stop S3 Monitor" / "Stop Scheduled Backup (S3)"
StopPress(m) ==
    /\ ~stopEvent[m]
    /\ stopEvent' = [stopEvent EXCEPT ![m] = TRUE]
    /\ UNCHANGED <<remote, changes, restarts, faults, now, monitorLast, backupMetadata,
                   files, versions, metaFile, tasks, log>>

\* ---- thread start: load the metadata, log the start line
ThreadInit(t) ==
    /\ tasks[t].pc = "init"
    /\ LET me == tasks[t]
           metadata == load_backup_metadata(metaFile[me.root])
           \* the statements before the loop stand in no try: 'files' in None
           \* raises TypeError, a list or None has no get; the thread ends there
           raised == IF me.mode = "monitor" THEN metadata.ty = "NoneType"
                     ELSE metadata.ty # "dict"
       IN /\ monitorLast' = IF me.mode = "monitor" /\ metadata.hasFiles
                            THEN MapUpdate(monitorLast, metadata.files)
                            ELSE monitorLast
          /\ tasks' = [tasks EXCEPT ![t] =
                 IF raised THEN [me EXCEPT !.pc = "crashed"]
                 ELSE [me EXCEPT !.pc = "loop",
                                 !.backup_history = IF me.mode = "backup" THEN metadata.files
                                                    ELSE EmptyMap]]
          /\ LET loaded == IF metaFile[me.root].st = "truncated"
                            THEN [log EXCEPT !["main"] = Line("error loading metadata", t, <<>>)]
                            ELSE log
             IN log' = IF raised THEN loaded
                       ELSE [loaded EXCEPT ![me.mode] = Line("started", t, <<>>)]
    /\ UNCHANGED <<remote, changes, restarts, faults, now, stopEvent, backupMetadata,
                   files, versions, metaFile>>

\* ---- while not stop_event.is_set(): leave the loop, or begin a cycle
\* mutant: both threads are handed the stop event of the backup
ThreadExit_backup_event(t) ==
    /\ tasks[t].pc = "loop"
    /\ stopEvent["backup"]
    /\ tasks' = [tasks EXCEPT ![t] = [@ EXCEPT !.pc = "done"]]
    /\ log' = [log EXCEPT ![tasks[t].mode] = Line("stopped", t, <<>>)]
    /\ UNCHANGED <<remote, changes, restarts, faults, now, stopEvent, monitorLast, backupMetadata,
                   files, versions, metaFile>>

ThreadExit(t) ==
    /\ tasks[t].pc = "loop"
    /\ stopEvent[tasks[t].mode]
    /\ tasks' = [tasks EXCEPT ![t] = [@ EXCEPT !.pc = "done"]]
    /\ log' = [log EXCEPT ![tasks[t].mode] = Line("stopped", t, <<>>)]
    /\ UNCHANGED <<remote, changes, restarts, faults, now, stopEvent, monitorLast, backupMetadata,
                   files, versions, metaFile>>

CycleBegin(t) ==
    /\ tasks[t].pc = "loop"
    /\ ~stopEvent[tasks[t].mode]
    /\ LET me == tasks[t] IN
       /\ tasks' = [tasks EXCEPT ![t] =
              [me EXCEPT !.pc = "list", !.page = 1, !.objs = <<>>, !.idx = 0, !.attempt = 0,
                         !.backup_count = IF me.mode = "backup" THEN @ + 1 ELSE @,
                         !.consecutive_errors = 0,
                         !.cycles = @ + 1,
                         !.prev = [ran |-> me.cycles > 0,
                                   clean |-> /\ ~me.cyc.error /\ ~me.cyc.cut
                                             /\ me.cyc.failed = {},
                                   quiet |-> me.cyc.quiet,
                                   saved |-> me.cyc.saved],
                         !.cyc = NewCycle(Entries(t))]]
       /\ log' = IF me.mode = "backup"
                 THEN [log EXCEPT !["backup"] = Line("backup started", t, <<>>)]
                 ELSE log
    /\ UNCHANGED <<remote, changes, restarts, faults, now, stopEvent, monitorLast, backupMetadata,
                   files, versions, metaFile>>

\* ---- except Exception as e (the handler of the cycle's try)
\* mutant: the exception of a cycle is not caught and ends the thread
CycleExcept_uncaught(me) ==
    [me EXCEPT !.pc = "done", !.cyc = [@ EXCEPT !.error = TRUE]]
\* mutant: the doubled interval is not capped
CycleExcept_uncapped(me) ==
    LET n == me.consecutive_errors + 1 IN
    [me EXCEPT !.pc = "sleep",
               !.consecutive_errors = IF n >= max_errors(me.mode) THEN 0 ELSE n,
               !.interval = IF n >= max_errors(me.mode) THEN me.interval * 2 ELSE @,
               !.streak = @ + 1,
               !.cyc = [@ EXCEPT !.error = TRUE]]
CycleExcept(me) ==
    LET n == me.consecutive_errors + 1 IN
    [me EXCEPT !.pc = "sleep",
               !.consecutive_errors = IF n >= max_errors(me.mode) THEN 0 ELSE n,
               !.interval = IF n >= max_errors(me.mode)
                            THEN Min(me.interval * 2, interval_cap(me.mode)) ELSE @,
               !.streak = @ + 1,
               !.cyc = [@ EXCEPT !.error = TRUE]]

\* ---- for page in page_iterator: the next page arrives, or the pages are over
ListPage(t) ==
    /\ tasks[t].pc = "list"
    /\ LET me == tasks[t] IN
       IF me.page > NumPages
       THEN /\ tasks' = [tasks EXCEPT ![t] = [me EXCEPT !.pc = "saveset"]]
            /\ UNCHANGED log
       ELSE IF me.mode = "backup" /\ stopEvent["backup"]
       THEN /\ tasks' = [tasks EXCEPT ![t] =
                   [me EXCEPT !.pc = "saveset", !.cyc = [@ EXCEPT !.cut = TRUE]]]
            /\ log' = [log EXCEPT !["backup"] = Line("stopped by user request", t, <<>>)]
       ELSE /\ tasks' = [tasks EXCEPT ![t] =
                   [me EXCEPT !.pc = "obj", !.objs = PageContents(me.page), !.idx = 1]]
            /\ UNCHANGED log
    /\ UNCHANGED <<remote, changes, restarts, faults, now, stopEvent, monitorLast, backupMetadata,
                   files, versions, metaFile>>

\* ---- the request for the next page raises: the cycle ends in the handler
ListFail(t) ==
    /\ tasks[t].pc = "list"
    /\ tasks[t].page <= NumPages
    /\ LET me == tasks[t]
           after == [CycleExcept(me) EXCEPT !.cyc = [@ EXCEPT !.listfail = TRUE]]
       IN /\ tasks' = [tasks EXCEPT ![t] = after]
          /\ log' = [log EXCEPT ![me.mode] =
                 IF me.consecutive_errors + 1 >= max_errors(me.mode)
                 THEN Line("increasing interval", t, <<>>)
                 ELSE Line("cycle error", t, <<>>)]
    /\ UNCHANGED <<remote, changes, restarts, now, stopEvent, monitorLast, backupMetadata,
                   files, versions, metaFile>>

\* ---- for obj in page['Contents']: the page is exhausted
PageDone(t) ==
    /\ tasks[t].pc = "obj"
    /\ tasks[t].idx > Len(tasks[t].objs)
    /\ tasks' = [tasks EXCEPT ![t] = [@ EXCEPT !.pc = "list", !.page = @ + 1]]
    /\ UNCHANGED <<remote, changes, restarts, faults, now, stopEvent, monitorLast, backupMetadata,
                   files, versions, metaFile, log>>

\* ---- if stop_event.is_set(): break   (leaves the page, not the listing)
ObjBreak(t) ==
    /\ tasks[t].pc = "obj"
    /\ tasks[t].idx <= Len(tasks[t].objs)
    /\ stopEvent[tasks[t].mode]
    /\ tasks' = [tasks EXCEPT ![t] =
           [@ EXCEPT !.pc = "list", !.page = @ + 1, !.cyc = [@ EXCEPT !.cut = TRUE]]]
    /\ UNCHANGED <<remote, changes, restarts, faults, now, stopEvent, monitorLast, backupMetadata,
                   files, versions, metaFile, log>>

\* ---- change detection for the object at hand
ClassifyObj(t) ==
    /\ tasks[t].pc = "obj"
    /\ tasks[t].idx <= Len(tasks[t].objs)
    /\ ~stopEvent[tasks[t].mode]
    /\ LET me == tasks[t]
           obj == me.objs[me.idx]
           key == obj.Key
           changed == IF me.mode = "monitor" THEN file_changed(Entries(t), obj)
                      ELSE needs_backup(Entries(t), obj)
           cls == Classify(me.mode, Entries(t), obj)
           seen == [me EXCEPT !.cyc = [@ EXCEPT !.cls = [@ EXCEPT ![key] = cls]]]
       IN tasks' = [tasks EXCEPT ![t] =
              IF ~changed
              THEN [seen EXCEPT !.idx = @ + 1]
              ELSE IF me.mode = "backup" /\ key \in DOMAIN files[me.root]
              THEN [seen EXCEPT !.pc = "version"]
              ELSE [seen EXCEPT !.pc = "download", !.attempt = 0,
                                !.cyc = [@ EXCEPT !.seq = [@ EXCEPT ![key] = @ + 1]]]]
    /\ UNCHANGED <<remote, changes, restarts, faults, now, stopEvent, monitorLast, backupMetadata,
                   files, versions, metaFile, log>>

\* ---- backup mode: os.rename(local_path, backup_path) into .versions
VersionMoveLog(t, moved, logged) ==
    /\ tasks[t].pc = "version"
    /\ LET me == tasks[t]
           key == me.objs[me.idx].Key
           backup_filename == <<BaseName(key), now>>
       IN /\ IF moved
             THEN /\ versions' = [versions EXCEPT ![me.root] =
                                     MapPut(@, backup_filename, files[me.root][key])]
                  /\ files' = [files EXCEPT ![me.root] = MapDel(@, key)]
                  /\ log' = [log EXCEPT !["backup"] =
                                IF logged THEN Line("versioned backup", t, key)
                                ELSE Line("log write error", t, <<>>)]
             ELSE /\ UNCHANGED <<versions, files>>
                  /\ log' = [log EXCEPT !["backup"] =
                                IF logged THEN Line("version backup failed", t, key)
                                ELSE Line("log write error", t, <<>>)]
          /\ tasks' = [tasks EXCEPT ![t] =
                 [me EXCEPT !.pc = "download", !.attempt = 0,
                            !.cyc = [@ EXCEPT !.seq = [@ EXCEPT ![key] = @ + 1],
                                              !.unversioned = IF moved THEN @
                                                              ELSE @ \cup {key},
                                              !.archived = IF moved
                                                           THEN MapPut(@, key, files[me.root][key])
                                                           ELSE @]]]
    /\ UNCHANGED <<remote, changes, restarts, now, stopEvent, monitorLast, backupMetadata,
                   metaFile>>
VersionMove(t, moved) == VersionMoveLog(t, moved, TRUE)

\* ---- os.makedirs(backup_dir, exist_ok=True) raises (.versions is a regular
\* file, or the directory cannot be created): the call stands before the try
\* of the object, its exception reaches the handler of the cycle
VersionDirFail(t) ==
    /\ tasks[t].pc = "version"
    /\ LET me == tasks[t]
           key == me.objs[me.idx].Key
           after == [CycleExcept(me) EXCEPT !.cyc = [@ EXCEPT !.unversioned = @ \cup {key}]]
       IN /\ tasks' = [tasks EXCEPT ![t] = after]
          /\ log' = [log EXCEPT !["backup"] =
                 IF me.consecutive_errors + 1 >= max_errors(me.mode)
                 THEN Line("increasing interval", t, <<>>)
                 ELSE Line("cycle error", t, <<>>)]
    /\ UNCHANGED <<remote, changes, restarts, now, stopEvent, monitorLast, backupMetadata,
                   files, versions, metaFile>>

\* ---- one pass of "for attempt in range(max_retries)"
\* net: download_file returned or raised; wrote: the size of the file it left
\* relative to the object it read; hashed: calculate_file_hash returned a digest.
\* mutant: the last failure is not caught around the retry loop and ends the cycle
AttemptFailed_uncaught(me, t, key) ==
    IF me.attempt = max_retries - 1
    THEN CycleExcept(me)
    ELSE [me EXCEPT !.pc = "backoff"]

AttemptFailed(me, t, key) ==
    IF me.attempt = max_retries - 1
    THEN \* raise download_error: the handler around the retry loop
         [me EXCEPT !.pc = "obj", !.idx = @ + 1,
                    !.consecutive_errors = IF me.mode = "backup" THEN @ + 1 ELSE @,
                    !.cyc = [@ EXCEPT !.failed = @ \cup {key}]]
    ELSE [me EXCEPT !.pc = "backoff"]

DownloadAttempt(t, net, short, hashed) ==
    /\ tasks[t].pc = "download"
    /\ LET me == [tasks[t] EXCEPT !.cyc = [@ EXCEPT !.fetched =
                       @ \cup {tasks[t].objs[tasks[t].idx].Key}]]
           obj == me.objs[me.idx]
           key == obj.Key
           written == [etag |-> remote[key].etag,
                       size |-> IF short THEN remote[key].size - 1 ELSE remote[key].size]
           fs == IF net = "ok" THEN MapPut(files[me.root], key, written) ELSE files[me.root]
           valid == net = "ok" /\ validate_file_integrity(fs, key, obj.Size)
           file_hash == IF hashed THEN calculate_file_hash(fs[key]) ELSE None
           entry == FullEntry(obj, file_hash, now,
                              IF me.mode = "backup" THEN me.backup_count ELSE 0)
           \* valid and not hashed: file_hash[:8] raises on None, after the
           \* entry was stored
           download_error ==
               IF net = "error" THEN "download_file raised"
               ELSE IF ~valid THEN "File integrity check failed"
               ELSE "'NoneType' object is not subscriptable"
           ended == IF valid /\ hashed
                    THEN [me EXCEPT !.pc = "obj", !.idx = @ + 1]
                    ELSE AttemptFailed(me, t, key)
           \* the handler that ends the retries logs the exception it was handed
           after == IF ~(valid /\ hashed) /\ ended.pc # "backoff"
                    THEN [ended EXCEPT !.cyc = [@ EXCEPT !.reported =
                                                    MapPut(@, key, download_error)]]
                    ELSE ended
       IN /\ (net = "error" => ~short /\ hashed)
          /\ (~valid => hashed)
          /\ files' = [files EXCEPT ![me.root] = fs]
          /\ IF valid /\ me.mode = "monitor"
             THEN monitorLast' = MapPut(monitorLast, key, entry)
             ELSE UNCHANGED monitorLast
          /\ tasks' = [tasks EXCEPT ![t] =
                 IF valid /\ me.mode = "backup"
                 THEN [after EXCEPT !.backup_history = MapPut(@, key, entry)]
                 ELSE after]
          /\ log' = [log EXCEPT ![me.mode] =
                 IF valid /\ hashed THEN Line("downloaded", t, key)
                 ELSE IF after.pc = "obj" THEN Line("failed", t, key)
                 ELSE @]
    /\ UNCHANGED <<remote, changes, restarts, now, stopEvent, backupMetadata,
                   versions, metaFile>>

\* ---- time.sleep(2 ** attempt), then the next attempt
\* mutant: the wait between attempts is one second every time
Backoff_fixed(t) ==
    /\ tasks[t].pc = "backoff"
    /\ now' = now + 1
    /\ tasks' = [tasks EXCEPT ![t] = [@ EXCEPT !.pc = "download", !.attempt = @ + 1]]
    /\ log' = IF tasks[t].mode = "backup"
              THEN [log EXCEPT !["backup"] = Line("retry", t, tasks[t].objs[tasks[t].idx].Key)]
              ELSE log
    /\ UNCHANGED <<remote, changes, restarts, faults, stopEvent, monitorLast, backupMetadata,
                   files, versions, metaFile>>

Backoff(t) ==
    /\ tasks[t].pc = "backoff"
    /\ now' = now + Pow2(tasks[t].attempt)
    /\ tasks' = [tasks EXCEPT ![t] = [@ EXCEPT !.pc = "download", !.attempt = @ + 1]]
    /\ log' = IF tasks[t].mode = "backup"
              THEN [log EXCEPT !["backup"] = Line("retry", t, tasks[t].objs[tasks[t].idx].Key)]
              ELSE log
    /\ UNCHANGED <<remote, changes, restarts, faults, stopEvent, monitorLast, backupMetadata,
                   files, versions, metaFile>>

\* ---- st.session_state['backup_metadata'] = <the thread's mapping>
SaveSet(t) ==
    /\ tasks[t].pc = "saveset"
    /\ backupMetadata' = IF tasks[t].mode = "monitor" THEN MonitorDict ELSE HistoryDict(t)
    /\ tasks' = [tasks EXCEPT ![t] = [@ EXCEPT !.pc = "savewrite"]]
    /\ UNCHANGED <<remote, changes, restarts, faults, now, stopEvent, monitorLast,
                   files, versions, metaFile, log>>

\* ---- save_backup_metadata(bucket, prefix, local_folder), then the summary
\* mutant: an exception of the metadata write reaches the handler of the cycle
SaveWriteLog_raises(t, opened, logged) ==
    /\ tasks[t].pc = "savewrite"
    /\ LET me == tasks[t]
           f == Deref(backupMetadata)
           ok == opened /\ JsonSerializable(f)
           left == save_backup_metadata(metaFile[me.root], "bucket", f, opened)
       IN /\ metaFile' = [metaFile EXCEPT ![me.root] = left]
          /\ (~logged => me.mode = "backup")
          /\ tasks' = [tasks EXCEPT ![t] =
                 IF ok
                 THEN [me EXCEPT !.pc = "sleep", !.streak = 0,
                                 !.cyc = [@ EXCEPT !.saved = "written"]]
                 ELSE [CycleExcept(me) EXCEPT !.cyc = [@ EXCEPT !.saved =
                           IF ~opened THEN "not opened" ELSE "truncated"]]]
          /\ log' = IF ~ok
                    THEN [log EXCEPT ![me.mode] = Line("cycle error", t, <<>>)]
                    ELSE IF me.mode = "backup"
                    THEN [log EXCEPT !["backup"] =
                             IF logged THEN Line("backup completed", t, <<>>)
                             ELSE Line("log write error", t, <<>>)]
                    ELSE log
    /\ UNCHANGED <<remote, changes, restarts, now, stopEvent, monitorLast, backupMetadata,
                   files, versions>>

\* opened = FALSE: makedirs or open raised in save_backup_metadata
\* logged = FALSE: makedirs, open or write raised in write_log
SaveWriteLog(t, opened, logged) ==
    /\ tasks[t].pc = "savewrite"
    /\ LET me == tasks[t]
           f == Deref(backupMetadata)
           left == save_backup_metadata(metaFile[me.root], "bucket", f, opened)
       IN /\ metaFile' = [metaFile EXCEPT ![me.root] = left]
          /\ tasks' = [tasks EXCEPT ![t] =
                 [me EXCEPT !.pc = "sleep", !.streak = 0,
                            !.cyc = [@ EXCEPT !.saved =
                                IF ~opened THEN "not opened"
                                ELSE IF JsonSerializable(f) THEN "written" ELSE "truncated"]]]
          /\ (~logged => me.mode = "backup")
          /\ LET saved == IF opened /\ JsonSerializable(f) THEN log
                          ELSE [log EXCEPT !["main"] = Line("error saving metadata", t, <<>>)]
             IN log' = IF me.mode = "backup"
                       THEN [saved EXCEPT !["backup"] =
                                IF logged THEN Line("backup completed", t, <<>>)
                                ELSE Line("log write error", t, <<>>)]
                       ELSE saved
    /\ UNCHANGED <<remote, changes, restarts, now, stopEvent, monitorLast, backupMetadata,
                   files, versions>>

SaveWrite(t, opened) == SaveWriteLog(t, opened, TRUE)

\* ---- monitor: time.sleep(interval)
MonitorSleep(t) ==
    /\ tasks[t].pc = "sleep"
    /\ tasks[t].mode = "monitor"
    /\ now' = now + tasks[t].interval
    /\ tasks' = [tasks EXCEPT ![t] = [@ EXCEPT !.pc = "loop"]]
    /\ UNCHANGED <<remote, changes, restarts, faults, stopEvent, monitorLast, backupMetadata,
                   files, versions, metaFile, log>>

\* ---- backup: for _ in range(interval * 60): if stop: break; time.sleep(1)
\* The iterations that run while the event stays clear are taken in one step.
BackupSleep(t) ==
    /\ tasks[t].pc = "sleep"
    /\ tasks[t].mode = "backup"
    /\ now' = IF stopEvent["backup"] THEN now ELSE now + tasks[t].interval * 60
    /\ tasks' = [tasks EXCEPT ![t] = [@ EXCEPT !.pc = "loop"]]
    /\ UNCHANGED <<remote, changes, restarts, faults, stopEvent, monitorLast, backupMetadata,
                   files, versions, metaFile, log>>

\* ---- the waits statement by statement: a stop request can arrive while a
\* time.sleep call is running
\* monitor: time.sleep(interval) is entered
MonitorSleepBegin(t) ==
    /\ tasks[t].pc = "sleep"
    /\ tasks[t].mode = "monitor"
    /\ tasks' = [tasks EXCEPT ![t] =
           [@ EXCEPT !.pc = "nap",
                     !.cyc = [@ EXCEPT !.overslept = IF stopEvent["monitor"] THEN @ ELSE 0,
                                       !.napClear = ~stopEvent["monitor"]]]]
    /\ UNCHANGED <<remote, changes, restarts, faults, now, stopEvent, monitorLast, backupMetadata,
                   files, versions, metaFile, log>>

\* backup: for _ in range(interval * 60)
BackupSleepBegin(t) ==
    /\ tasks[t].pc = "sleep"
    /\ tasks[t].mode = "backup"
    /\ tasks' = [tasks EXCEPT ![t] = [@ EXCEPT !.pc = "sleepcheck", !.left = tasks[t].interval * 60]]
    /\ UNCHANGED <<remote, changes, restarts, faults, now, stopEvent, monitorLast, backupMetadata,
                   files, versions, metaFile, log>>

\* backup: the range is exhausted, or: if stop_event.is_set(): break
SleepCheck(t) ==
    /\ tasks[t].pc = "sleepcheck"
    /\ tasks' = [tasks EXCEPT ![t] =
           [@ EXCEPT !.pc = IF tasks[t].left = 0 \/ stopEvent["backup"] THEN "loop" ELSE "nap",
                     !.cyc = [@ EXCEPT !.overslept = IF stopEvent["backup"] THEN @ ELSE 0]]]
    /\ UNCHANGED <<remote, changes, restarts, faults, now, stopEvent, monitorLast, backupMetadata,
                   files, versions, metaFile, log>>

\* backup: the iterations left all find the event clear and sleep their second
SleepRest(t) ==
    /\ tasks[t].pc = "sleepcheck"
    /\ tasks[t].left > 0
    /\ ~stopEvent["backup"]
    /\ now' = now + tasks[t].left
    /\ tasks' = [tasks EXCEPT ![t] = [@ EXCEPT !.left = 0]]
    /\ UNCHANGED <<remote, changes, restarts, faults, stopEvent, monitorLast, backupMetadata,
                   files, versions, metaFile, log>>

\* mutant: the loop of the backup sleeps the whole interval in each iteration
Nap_interval(t) ==
    /\ tasks[t].pc = "nap"
    /\ LET me == tasks[t]
           d == me.interval
           heard == [me EXCEPT !.cyc = [@ EXCEPT !.overslept =
                        IF stopEvent[me.mode] THEN @ + d ELSE @]]
       IN /\ now' = now + d
          /\ tasks' = [tasks EXCEPT ![t] =
                 IF me.mode = "monitor"
                 THEN [heard EXCEPT !.pc = "loop"]
                 ELSE [heard EXCEPT !.pc = "sleepcheck", !.left = @ - 1]]
    /\ UNCHANGED <<remote, changes, restarts, faults, stopEvent, monitorLast, backupMetadata,
                   files, versions, metaFile, log>>

\* the running time.sleep call returns: time.sleep(interval) in the monitor,
\* time.sleep(1) in the loop of the backup
Nap(t) ==
    /\ tasks[t].pc = "nap"
    /\ LET me == tasks[t]
           d == IF me.mode = "monitor" THEN me.interval ELSE 1
           heard == [me EXCEPT !.cyc = [@ EXCEPT !.overslept =
                        IF stopEvent[me.mode] THEN @ + d ELSE @]]
       IN /\ now' = now + d
          /\ tasks' = [tasks EXCEPT ![t] =
                 IF me.mode = "monitor"
                 THEN [heard EXCEPT !.pc = "loop"]
                 ELSE [heard EXCEPT !.pc = "sleepcheck", !.left = @ - 1]]
    /\ UNCHANGED <<remote, changes, restarts, faults, stopEvent, monitorLast, backupMetadata,
                   files, versions, metaFile, log>>

\* ---------------------------------------------------------------- environment
\* Between(t): thread t is not inside a pass over the listing
Between(t) == tasks[t].pc \in {"none", "init", "loop", "sleep", "done", "crashed"}

\* The bucket's owner replaces an object: a touch (new LastModified only), a
\* re-upload of the same bytes (new ETag only), or new content (all three change).
RemoteChange(k, kind, etag, size) ==
    /\ changes < MaxChanges
    /\ k \in DOMAIN remote
    /\ etag # remote[k].etag
    /\ size # remote[k].size
    /\ kind \in {"touch", "content"} => remote[k].lm < MaxStamp
    /\ remote' = [remote EXCEPT ![k] =
           IF kind = "touch" THEN [@ EXCEPT !.lm = @ + 1]
           ELSE IF kind = "retag" THEN [@ EXCEPT !.etag = etag]
           ELSE [lm |-> @.lm + 1, etag |-> etag, size |-> size]]
    /\ changes' = changes + 1
    /\ tasks' = [t \in TaskIds |-> [tasks[t] EXCEPT !.cyc = [@ EXCEPT !.quiet = FALSE]]]
    /\ UNCHANGED <<restarts, faults, now, stopEvent, monitorLast, backupMetadata,
                   files, versions, metaFile, log>>

\* The application is closed after its threads were stopped and is started
\* again: the session state is built anew (lines 19-36), the disk stays.
ProcessRestart ==
    /\ restarts < MaxRestarts
    /\ \A t \in TaskIds : ~Live(t)
    /\ \E t \in TaskIds : tasks[t].pc \in {"done", "crashed"}
    /\ restarts' = restarts + 1
    /\ stopEvent' = [m \in Modes |-> FALSE]
    /\ monitorLast' = EmptyMap
    /\ backupMetadata' = InitialDict
    /\ tasks' = [t \in TaskIds |-> NoTask]
    /\ log' = [m \in LogKeys |-> NoLine]
    /\ UNCHANGED <<remote, changes, faults, now, files, versions, metaFile>>

\* ------------------------------------------------------------ specification
Intervals(m) == IF m = "monitor" THEN {s3_monitor_interval} ELSE {s3_backup_interval}

\* A call fails: one more of the failures the environment injects.
Charge(failed, budget) ==
    IF failed THEN faults < budget /\ faults' = faults + 1 ELSE UNCHANGED faults

\* One thread in a session: Start with a folder and a bucket is pressed once.
StartButton ==
    \E m \in Modes, folder \in {local_folder, ""}, bucket \in {"bucket", ""} :
        \E iv \in Intervals(m) :
            /\ (folder # "" /\ bucket # "") => \A t \in TaskIds : tasks[t].pc = "none"
            /\ StartPress(m, folder, bucket, iv)
\* Stop is pressed for a mode that has a thread running.
StopButton == \E m \in Modes : (\E t \in TaskIds : Live(t) /\ tasks[t].mode = m) /\ StopPress(m)
\* The owner changes the bucket between the passes of a thread that has made one.
Owner == \E k \in Keys, kind \in {"touch", "retag", "content"}, etag \in Etags, size \in Sizes :
             /\ \A t \in TaskIds : Between(t)
             /\ \E t \in TaskIds : Live(t) /\ tasks[t].cycles > 0
             /\ RemoteChange(k, kind, etag, size)
ThreadInitStep == \E t \in TaskIds : ThreadInit(t)
ThreadExitStep == \E t \in TaskIds : ThreadExit(t)
CycleBeginStep == \E t \in TaskIds : tasks[t].cycles < MaxCycles /\ CycleBegin(t)
ListPageStep == \E t \in TaskIds : ListPage(t)
ListFailStep == \E t \in TaskIds : ListFail(t) /\ Charge(TRUE, MaxFaults)
PageDoneStep == \E t \in TaskIds : PageDone(t)
ObjBreakStep == \E t \in TaskIds : ObjBreak(t)
ClassifyObjStep == \E t \in TaskIds : ClassifyObj(t)
VersionMoveStep ==
    \E t \in TaskIds, moved \in BOOLEAN : VersionMove(t, moved) /\ Charge(~moved, MaxFaults)
DownloadStep ==
    \E t \in TaskIds, net \in {"ok", "error"}, short \in BOOLEAN, hashed \in BOOLEAN :
        DownloadAttempt(t, net, short, hashed) /\ Charge(net = "error" \/ short \/ ~hashed, MaxFaults)
BackoffStep == \E t \in TaskIds : Backoff(t)
SaveSetStep == \E t \in TaskIds : SaveSet(t)
SaveWriteStep ==
    \E t \in TaskIds, opened \in BOOLEAN : SaveWrite(t, opened) /\ Charge(~opened, MaxFaults)
MonitorSleepStep == \E t \in TaskIds : MonitorSleep(t)
BackupSleepStep == \E t \in TaskIds : BackupSleep(t)

Next ==
    \/ StartButton
    \/ StopButton
    \/ Owner
    \/ ThreadInitStep \/ ThreadExitStep \/ CycleBeginStep
    \/ ListPageStep \/ ListFailStep
    \/ PageDoneStep \/ ObjBreakStep \/ ClassifyObjStep
    \/ VersionMoveStep \/ DownloadStep \/ BackoffStep
    \/ SaveSetStep \/ SaveWriteStep
    \/ MonitorSleepStep \/ BackupSleepStep

Spec == Init /\ [][Next]_vars

\* ---- scheduling: a started thread keeps running, and each of its calls returns
ThreadStep(t) ==
    \/ ThreadInit(t)
    \/ ThreadExit(t)
    \/ tasks[t].cycles < MaxCycles /\ CycleBegin(t)
    \/ ListPage(t)
    \/ ListFail(t) /\ Charge(TRUE, MaxFaults)
    \/ PageDone(t)
    \/ ObjBreak(t)
    \/ ClassifyObj(t)
    \/ \E moved \in BOOLEAN : VersionMove(t, moved) /\ Charge(~moved, MaxFaults)
    \/ \E net \in {"ok", "error"}, short \in BOOLEAN, hashed \in BOOLEAN :
           DownloadAttempt(t, net, short, hashed)
               /\ Charge(net = "error" \/ short \/ ~hashed, MaxFaults)
    \/ Backoff(t)
    \/ SaveSet(t)
    \/ \E opened \in BOOLEAN : SaveWrite(t, opened) /\ Charge(~opened, MaxFaults)
    \/ MonitorSleep(t)
    \/ BackupSleep(t)
\* the bucket stays as it is
NextFair == StartButton \/ StopButton \/ \E t \in TaskIds : ThreadStep(t)
SpecFair == Init /\ [][NextFair]_vars /\ \A t \in TaskIds : WF_vars(ThreadStep(t))

\* ---- the waits in single time.sleep calls: no call fails, the bucket stays
\* as it is; the loop of the backup is followed call by call for its first
\* MaxNaps iterations
SleepStart == StartButton
SleepStop == StopButton
SleepThread ==
    \E t \in TaskIds :
        \/ ThreadInit(t)
        \/ ThreadExit(t)
        \/ tasks[t].cycles < MaxCycles /\ CycleBegin(t)
        \/ ListPage(t)
        \/ PageDone(t)
        \/ ObjBreak(t)
        \/ ClassifyObj(t)
        \/ DownloadAttempt(t, "ok", FALSE, TRUE) /\ UNCHANGED faults
        \/ SaveSet(t)
        \/ SaveWrite(t, TRUE) /\ UNCHANGED faults
        \/ MonitorSleepBegin(t)
        \/ BackupSleepBegin(t)
        \/ /\ \/ tasks[t].left = 0
              \/ stopEvent["backup"]
              \/ tasks[t].interval * 60 - tasks[t].left < MaxNaps
           /\ SleepCheck(t)
        \/ SleepRest(t)
        \/ Nap(t)
NextSleep == SleepStart \/ SleepStop \/ SleepThread
SpecSleep == Init /\ [][NextSleep]_vars

\* ---- restart: no call fails and the bucket stays as it is; the application
\* is closed after its thread was stopped, and started again
RestartStart == StartButton
RestartStop == StopButton
RestartThread ==
    \E t \in TaskIds :
        \/ ThreadInit(t)
        \/ ThreadExit(t)
        \/ tasks[t].cycles < MaxCycles /\ CycleBegin(t)
        \/ ListPage(t)
        \/ PageDone(t)
        \/ ObjBreak(t)
        \/ ClassifyObj(t)
        \/ VersionMove(t, TRUE) /\ UNCHANGED faults
        \/ DownloadAttempt(t, "ok", FALSE, TRUE) /\ UNCHANGED faults
        \/ SaveSet(t)
        \/ SaveWrite(t, TRUE) /\ UNCHANGED faults
        \/ MonitorSleep(t)
        \/ BackupSleep(t)
NextRestart == RestartStart \/ RestartStop \/ ProcessRestart \/ RestartThread
SpecRestart == Init /\ [][NextRestart]_vars
\* the same steps, from a root with a metadata file of any kind
SpecStartup == InitStartup /\ [][NextRestart]_vars
\* the same steps, from a root with a document of the older format
SpecLegacy == InitLegacy /\ [][NextRestart]_vars

\* ---- the buttons pressed in any order: Start with a folder and a bucket
\* creates a thread whenever it is pressed, Stop sets the event of its mode
\* whether or not a thread runs; no call fails and the bucket stays as it is.
\* A started thread keeps running.
PressStart ==
    \E m \in Modes : StartPress(m, local_folder, "bucket", CHOOSE iv \in Intervals(m) : TRUE)
PressStop == \E m \in Modes : StopPress(m)
PressThreadStep(t) ==
    \/ ThreadInit(t)
    \/ ThreadExit(t)
    \/ tasks[t].cycles < PressCycles /\ CycleBegin(t)
    \/ ListPage(t)
    \/ PageDone(t)
    \/ ObjBreak(t)
    \/ ClassifyObj(t)
    \/ VersionMove(t, TRUE) /\ UNCHANGED faults
    \/ DownloadAttempt(t, "ok", FALSE, TRUE) /\ UNCHANGED faults
    \/ SaveSet(t)
    \/ SaveWrite(t, TRUE) /\ UNCHANGED faults
    \/ MonitorSleep(t)
    \/ BackupSleep(t)
PressThread == \E t \in TaskIds : PressThreadStep(t)
NextPresses == PressStart \/ PressStop \/ PressThread
SpecPresses ==
    Init /\ [][NextPresses]_vars /\ \A t \in TaskIds : WF_vars(PressThreadStep(t))

\* ---- failures of the writes a thread makes for its own records: the
\* metadata document and the lines of backup_log.txt; listings, downloads
\* and moves succeed
WritesStart == StartButton
WritesStop == StopButton
WritesOwner == Owner
WritesThread ==
    \E t \in TaskIds :
        \/ ThreadInit(t)
        \/ ThreadExit(t)
        \/ tasks[t].cycles < MaxCycles /\ CycleBegin(t)
        \/ ListPage(t)
        \/ PageDone(t)
        \/ ObjBreak(t)
        \/ ClassifyObj(t)
        \/ \E logged \in BOOLEAN : VersionMoveLog(t, TRUE, logged) /\ Charge(~logged, MaxFaults)
        \/ DownloadAttempt(t, "ok", FALSE, TRUE) /\ UNCHANGED faults
        \/ SaveSet(t)
        \/ \E opened \in BOOLEAN, logged \in BOOLEAN :
               SaveWriteLog(t, opened, logged) /\ Charge(~opened \/ ~logged, MaxFaults)
        \/ MonitorSleep(t)
        \/ BackupSleep(t)
NextWrites == WritesStart \/ WritesStop \/ WritesOwner \/ WritesThread
SpecWrites == Init /\ [][NextWrites]_vars

\* ---- failures of single objects: downloads and the steps of the move into
\* .versions fail, requests for the listing and the metadata write do not
ObjStart == StartButton
ObjStop == StopButton
ObjThread ==
    \E t \in TaskIds :
        \/ ThreadInit(t)
        \/ ThreadExit(t)
        \/ tasks[t].cycles < MaxCycles /\ CycleBegin(t)
        \/ ListPage(t)
        \/ PageDone(t)
        \/ ObjBreak(t)
        \/ ClassifyObj(t)
        \/ \E moved \in BOOLEAN : VersionMove(t, moved) /\ Charge(~moved, MaxFaults)
        \/ VersionDirFail(t) /\ Charge(TRUE, MaxFaults)
        \/ \E net \in {"ok", "error"}, short \in BOOLEAN :
               DownloadAttempt(t, net, short, TRUE) /\ Charge(net = "error" \/ short, MaxFaults)
        \/ Backoff(t)
        \/ SaveSet(t)
        \/ SaveWrite(t, TRUE) /\ UNCHANGED faults
        \/ MonitorSleep(t)
        \/ BackupSleep(t)
ObjOwner == Owner
NextObjects == ObjStart \/ ObjStop \/ ObjOwner \/ ObjThread
SpecObjects == Init /\ [][NextObjects]_vars

\* ---- both modes side by side: Start is pressed once in each section, with
\* different folders; no call fails and the bucket stays as it is
BothStart ==
    \E m \in Modes :
        /\ \A t \in TaskIds : tasks[t].mode # m
        /\ StartPress(m, IF m = "monitor" THEN local_monitor_folder ELSE local_backup_folder,
                      "bucket", CHOOSE iv \in Intervals(m) : TRUE)
BothStop == StopButton
BothThread ==
    \E t \in TaskIds :
        \/ ThreadInit(t)
        \/ ThreadExit(t)
        \/ tasks[t].cycles < MaxCycles /\ CycleBegin(t)
        \/ ListPage(t)
        \/ PageDone(t)
        \/ ObjBreak(t)
        \/ ClassifyObj(t)
        \/ DownloadAttempt(t, "ok", FALSE, TRUE) /\ UNCHANGED faults
        \/ SaveSet(t)
        \/ SaveWrite(t, TRUE) /\ UNCHANGED faults
        \/ MonitorSleep(t)
        \/ BackupSleep(t)
NextBoth == BothStart \/ BothStop \/ BothThread
SpecBoth == Init /\ [][NextBoth]_vars

\* ---- one monitor after the other in a session, each on a folder of its
\* own: Start is pressed when no thread runs; no call fails and the bucket
\* stays as it is
RootsStart ==
    \E folder \in Roots :
        /\ \A t \in TaskIds : ~Live(t) /\ tasks[t].root # folder
        /\ StartPress("monitor", folder, "bucket", s3_monitor_interval)
RootsStop == StopButton
RootsThread ==
    \E t \in TaskIds :
        \/ ThreadInit(t)
        \/ ThreadExit(t)
        \/ tasks[t].cycles < MaxCycles /\ CycleBegin(t)
        \/ ListPage(t)
        \/ PageDone(t)
        \/ ObjBreak(t)
        \/ ClassifyObj(t)
        \/ DownloadAttempt(t, "ok", FALSE, TRUE) /\ UNCHANGED faults
        \/ SaveSet(t)
        \/ SaveWrite(t, TRUE) /\ UNCHANGED faults
        \/ MonitorSleep(t)
NextRoots == RootsStart \/ RootsStop \/ RootsThread
SpecRoots == Init /\ [][NextRoots]_vars

\* ---- doubling: a bucket with three objects, downloads and requests for the
\* listing fail; the interval is the default, one whose double is beyond
\* the cap, or one beyond the cap (number_input has a min_value and no
\* max_value)
DoublingIntervals(m) == IF m = "monitor" THEN {s3_monitor_interval, 200, 400}
                        ELSE {s3_backup_interval, 40, 90}
DoublingStart ==
    \E m \in Modes : \E iv \in DoublingIntervals(m) :
        /\ \A t \in TaskIds : tasks[t].pc = "none"
        /\ StartPress(m, local_folder, "bucket", iv)
DoublingStop == StopButton
DoublingThread ==
    \E t \in TaskIds :
        \/ ThreadInit(t)
        \/ ThreadExit(t)
        \/ tasks[t].cycles < DoublingCycles /\ CycleBegin(t)
        \/ ListPage(t)
        \/ ListFail(t) /\ Charge(TRUE, DoublingFaults)
        \/ PageDone(t)
        \/ ObjBreak(t)
        \/ ClassifyObj(t)
        \/ \E net \in {"ok", "error"} :
               DownloadAttempt(t, net, FALSE, TRUE) /\ Charge(net = "error", DoublingFaults)
        \/ Backoff(t)
        \/ SaveSet(t)
        \/ SaveWrite(t, TRUE) /\ UNCHANGED faults
        \/ MonitorSleep(t)
        \/ BackupSleep(t)
NextDoubling == DoublingStart \/ DoublingStop \/ DoublingThread
SpecDoubling == InitDoubling /\ [][NextDoubling]_vars

\* ---- escalation: only requests for a page of the listing fail
EscStart == StartButton
EscStop == StopButton
EscThread ==
    \E t \in TaskIds :
        \/ ThreadInit(t)
        \/ ThreadExit(t)
        \/ tasks[t].cycles < EscCycles /\ CycleBegin(t)
        \/ ListPage(t)
        \/ ListFail(t) /\ Charge(TRUE, EscFaults)
        \/ PageDone(t)
        \/ ObjBreak(t)
        \/ ClassifyObj(t)
        \/ DownloadAttempt(t, "ok", FALSE, TRUE) /\ UNCHANGED faults
        \/ SaveSet(t)
        \/ SaveWrite(t, TRUE) /\ UNCHANGED faults
        \/ MonitorSleep(t)
        \/ BackupSleep(t)
NextEscalation == EscStart \/ EscStop \/ EscThread
SpecEscalation == Init /\ [][NextEscalation]_vars

\* ------------------------------------------------------------------ claims
\* The object a thread is at, and the step that classifies it.
CurObj(t) == tasks[t].objs[tasks[t].idx]
AtObject(t) ==
    /\ tasks[t].pc = "obj"
    /\ tasks[t].idx <= Len(tasks[t].objs)
    /\ ~stopEvent[tasks[t].mode]
Classifies(t) == AtObject(t) /\ tasks'[t] # tasks[t]
EntriesAfter(t) == IF tasks[t].mode = "monitor" THEN monitorLast' ELSE tasks'[t].backup_history
\* the step enters the retry loop for the object, directly or after the
\* move into .versions
EntersRetryLoop(t, key) ==
    /\ tasks'[t].idx = tasks[t].idx
    /\ \/ /\ tasks'[t].pc = "download"
          /\ tasks'[t].attempt = 0
          /\ tasks'[t].cyc.seq[key] = 1
       \/ /\ tasks'[t].pc = "version"
          /\ tasks[t].mode = "backup"
AfterVersionMove(t) ==
    (tasks[t].pc = "version" /\ tasks'[t] # tasks[t])
        => /\ tasks'[t].pc = "download"
           /\ tasks'[t].attempt = 0
           /\ tasks'[t].idx = tasks[t].idx
           /\ tasks'[t].cyc.seq[CurObj(t).Key] = 1

\* C1: an object whose stored entry differs from the listing in last_modified
\* or in etag (one of them is enough) is classified Modified, and exactly one
\* retry loop of downloads is entered for it in the cycle.
C1_ModifiedStep(t) ==
    LET obj == CurObj(t)
        key == obj.Key
        m == Entries(t)
    IN (/\ Classifies(t)
        /\ key \in DOMAIN m
        /\ (m[key].last_modified # obj.LastModified \/ m[key].etag # obj.ETag))
           => /\ tasks'[t].cyc.cls[key] = "Modified"
              /\ tasks[t].cyc.seq[key] = 0
              /\ EntersRetryLoop(t, key)
C2_UnchangedStep(t) ==
    LET obj == CurObj(t)
        key == obj.Key
        m == Entries(t)
    IN (/\ Classifies(t)
        /\ key \in DOMAIN m
        /\ m[key].last_modified = obj.LastModified
        /\ m[key].etag = obj.ETag)
           => /\ tasks'[t].cyc.cls[key] = "Unchanged"
              /\ tasks'[t].pc = "obj"
              /\ tasks'[t].idx = tasks[t].idx + 1
              /\ EntriesAfter(t) = m
              /\ files' = files
              /\ versions' = versions
C2_UnchangedUntouched ==
    /\ [][\A t \in TaskIds : C2_UnchangedStep(t)]_vars
    /\ [](\A t \in TaskIds : \A k \in Keys :
             tasks[t].cyc.cls[k] = "Unchanged"
                 => /\ k \notin tasks[t].cyc.fetched
                    /\ tasks[t].cyc.seq[k] = 0
                    /\ k \in DOMAIN Entries(t)
                    /\ Entries(t)[k] = tasks[t].cyc.start[k])
C2_Witness ==
    \E t \in TaskIds : \E k \in Keys :
        /\ tasks[t].cyc.cls[k] = "Unchanged"
        /\ tasks[t].pc = "sleep"
        /\ k \in DOMAIN files[tasks[t].root]

\* C3: an object whose key has no stored entry is classified New and a retry
\* loop of downloads is entered for it.
C3_NewStep(t) ==
    LET key == CurObj(t).Key
    IN (Classifies(t) /\ key \notin DOMAIN Entries(t))
           => /\ tasks'[t].cyc.cls[key] = "New"
              /\ EntersRetryLoop(t, key)
C4_MismatchStep(t) ==
    LET me == tasks[t]
        obj == CurObj(t)
        key == obj.Key
    IN (/\ me.pc = "download"
        /\ tasks'[t] # me
        /\ key \in DOMAIN files'[me.root]
        /\ files'[me.root][key].size # obj.Size)
           => /\ EntriesAfter(t) = Entries(t)
              /\ IF me.attempt < max_retries - 1
                 THEN /\ tasks'[t].pc = "backoff"
                      /\ tasks'[t].idx = me.idx
                      /\ tasks'[t].cyc.failed = me.cyc.failed
                      /\ log' = log
                 ELSE /\ tasks'[t].pc = "obj"
                      /\ tasks'[t].cyc.failed = me.cyc.failed \cup {key}
                      /\ log'[me.mode] = Line("failed", t, key)
C4_BackoffStep(t) ==
    (tasks[t].pc = "backoff" /\ tasks'[t] # tasks[t])
        => /\ tasks'[t].pc = "download"
           /\ tasks'[t].attempt = tasks[t].attempt + 1
           /\ tasks'[t].idx = tasks[t].idx
C4_SizeMismatchRetried ==
    /\ [][\A t \in TaskIds : C4_MismatchStep(t) /\ C4_BackoffStep(t)]_vars
    /\ [](\A t \in TaskIds : tasks[t].attempt <= max_retries - 1)
\* three attempts left a file of the wrong size: the object is logged as
\* failed and has no entry
C4_Witness ==
    \E t \in TaskIds : \E k \in Keys :
        /\ Live(t)
        /\ log[tasks[t].mode] = Line("failed", t, k)
        /\ k \in tasks[t].cyc.failed
        /\ k \in DOMAIN files[tasks[t].root]
        /\ files[tasks[t].root][k].size # remote[k].size
        /\ k \notin DOMAIN Entries(t)

\* C5 as stated: in a cycle that follows another cycle of the same thread,
\* with the bucket unchanged since that cycle began, nothing is downloaded and
\* the entries stay as they were at the cycle's start.
QuietSecondCycle(t) ==
    /\ Live(t)
    /\ tasks[t].prev.ran
    /\ tasks[t].prev.quiet
    /\ tasks[t].cyc.quiet
C5_AsStated ==
    \A t \in TaskIds :
        QuietSecondCycle(t)
            => tasks[t].cyc.fetched = {} /\ Entries(t) = tasks[t].cyc.start
\* C5 amended: the same, when the first of the two cycles ended without a
\* failed object, without a cycle-level error and without being cut short by
\* a stop request.
C5_IdempotentAfterCleanCycle ==
    \A t \in TaskIds :
        (QuietSecondCycle(t) /\ tasks[t].prev.clean)
            => tasks[t].cyc.fetched = {} /\ Entries(t) = tasks[t].cyc.start
\* the second cycle is over: it found every object unchanged, the first had
\* downloaded them
C5_Witness ==
    \E t \in TaskIds :
        /\ QuietSecondCycle(t)
        /\ tasks[t].prev.clean
        /\ tasks[t].pc = "sleep"
        /\ \A k \in DOMAIN remote : tasks[t].cyc.cls[k] = "Unchanged"
        /\ DOMAIN Entries(t) = DOMAIN remote

\* C6: a cycle that finds one key New and one key Unchanged, downloads the
\* New one and writes the document, downloads nothing else, leaves the other
\* entry as it was, and the written document has entries for both keys.
C6_EndToEnd ==
    \A t \in TaskIds : \A a, b \in Keys :
        (/\ Live(t)
         /\ tasks[t].pc = "sleep"
         /\ tasks[t].cyc.cls[a] = "New"
         /\ tasks[t].cyc.cls[b] = "Unchanged"
         /\ a \notin tasks[t].cyc.failed
         /\ tasks[t].cyc.saved \in {"written", "truncated"})
            => /\ tasks[t].cyc.fetched = {a}
               /\ Entries(t)[b] = tasks[t].cyc.start[b]
               /\ metaFile[tasks[t].root].st = "doc"
               /\ {a, b} \subseteq DOMAIN metaFile[tasks[t].root].files

\* C7: after save_backup_metadata has written the document, load_backup_metadata
\* returns a 'files' mapping equal to the in-memory mapping that was written.
C7_RoundTrip ==
    [][\A t \in TaskIds :
          (/\ tasks[t].pc = "savewrite"
           /\ tasks'[t].pc = "sleep"
           /\ tasks'[t].cyc.saved # "not opened")
              => load_backup_metadata(metaFile'[tasks[t].root]).files = Deref(backupMetadata)]_vars

\* C8: after a restart of the application, the first cycle of a thread on a
\* root whose document was written classifies every key whose file an earlier
\* thread had downloaded as Unchanged.
C8_ProgressSurvivesRestart ==
    \A t \in TaskIds : \A k \in Keys :
        (/\ restarts > 0
         /\ Live(t)
         /\ tasks[t].cycles = 1
         /\ tasks[t].cyc.cls[k] # "none"
         /\ k \notin tasks[t].cyc.fetched
         /\ k \in DOMAIN files[tasks[t].root]
         /\ metaFile[tasks[t].root].st # "absent")
            => tasks[t].cyc.cls[k] = "Unchanged"

C9_PassEnd(t) ==
    (tasks[t].pc # "sleep" /\ tasks'[t].pc = "sleep")
        => \/ /\ tasks[t].pc = "list"
              /\ tasks[t].page <= NumPages
              /\ tasks'[t].cyc.saved = "no"
              /\ metaFile' = metaFile
           \/ /\ tasks[t].pc = "savewrite"
              /\ tasks'[t].cyc.saved # "no"
              /\ \A r \in Roots : r # tasks[t].root => metaFile'[r] = metaFile[r]
              /\ tasks'[t].cyc.saved = "not opened" => metaFile' = metaFile
              /\ tasks'[t].cyc.saved = "written"
                     => metaFile'[tasks[t].root] = Document("bucket", now, Deref(backupMetadata))
C10_EscalationAtThreshold ==
    [][\A t \in TaskIds :
          (/\ tasks'[t].streak # tasks[t].streak
           /\ tasks'[t].streak = max_errors(tasks[t].mode))
              => tasks'[t].interval =
                     Min(2 * tasks[t].interval, interval_cap(tasks[t].mode))]_vars

\* C11: a cycle that completes without a cycle-level exception leaves the
\* consecutive-failure counter at zero, in both modes.
C11_CounterZeroAfterCompletedCycle ==
    \A t \in TaskIds :
        (Live(t) /\ tasks[t].pc = "sleep" /\ ~tasks[t].cyc.error)
            => tasks[t].consecutive_errors = 0

\* C12: in backup mode, when a key backed up in one cycle is backed up again in
\* the next after the object changed, and its live file was moved into
\* .versions, the archive holds at the end of that cycle exactly one file
\* named after the key that has the content the live file had before the cycle.
ArchivedCopies(r, k, content) ==
    {n \in DOMAIN versions[r] : n[1] = BaseName(k) /\ versions[r][n] = content}
C12_OneArchivedCopy ==
    \A t \in TaskIds : \A k \in Keys :
        (/\ Live(t)
         /\ tasks[t].mode = "backup"
         /\ tasks[t].pc = "sleep"
         /\ tasks[t].cycles = 2
         /\ k \in DOMAIN tasks[t].cyc.start
         /\ tasks[t].cyc.cls[k] = "Modified"
         /\ k \in DOMAIN tasks[t].cyc.archived
         /\ k \notin tasks[t].cyc.failed)
            => Cardinality(ArchivedCopies(tasks[t].root, k, tasks[t].cyc.archived[k])) = 1

\* C13: once the stop event of its mode is set and stays set, a running thread
\* eventually leaves its loop; the step that leaves the loop is taken with the
\* event set and logs the termination line.
C13_StopLeadsToExit ==
    /\ \A t \in TaskIds : \A m \in Modes :
           (Live(t) /\ tasks[t].mode = m /\ stopEvent[m])
               ~> (tasks[t].pc = "done" \/ ~stopEvent[m])
    /\ [][\A t \in TaskIds :
             (tasks[t].pc # "done" /\ tasks'[t].pc = "done")
                 => /\ stopEvent[tasks[t].mode]
                    /\ log'[tasks[t].mode] = Line("stopped", t, <<>>)]_vars
\* a thread that a stop request reached inside a pass has left its loop
C13_Witness ==
    \E t \in TaskIds : tasks[t].pc = "done" /\ tasks[t].cyc.cut /\ stopEvent[tasks[t].mode]

\* C14: a thread that a stop request reached inside a pass, and whose pass
\* ended without a cycle-level error, has left in its root when it exits a
\* metadata document that contains every entry the thread holds.
C14_StopWritesEntries ==
    \A t \in TaskIds :
        (/\ tasks[t].pc = "done"
         /\ tasks[t].cyc.cut
         /\ ~tasks[t].cyc.error
         /\ tasks[t].cyc.saved \in {"written", "truncated"})
            => /\ metaFile[tasks[t].root].st = "doc"
               /\ metaFile[tasks[t].root].files = Entries(t)

\* C15: in backup mode the wait tests the stop event before every
\* time.sleep call and each call lasts one second, so the thread sleeps at
\* most one second past a stop request and leaves the wait with iterations
\* to spare.
C15_BackupWaitPreemptible ==
    /\ [](\A t \in TaskIds :
             tasks[t].mode = "backup" => tasks[t].cyc.overslept <= 1)
    /\ [][\A t \in TaskIds :
             (tasks[t].mode = "backup" /\ tasks[t].pc # "nap" /\ tasks'[t].pc = "nap")
                 => ~stopEvent["backup"]]_vars
    /\ [][\A t \in TaskIds :
             (tasks[t].mode = "backup" /\ tasks[t].pc = "sleepcheck"
                  /\ tasks'[t] # tasks[t] /\ stopEvent["backup"])
                 => tasks'[t].pc = "loop" /\ now' = now]_vars
\* a stop request arrived during a time.sleep(1) call; the wait ended after
\* that call, before the interval was over
C15_Witness ==
    \E t \in TaskIds :
        /\ tasks[t].mode = "backup"
        /\ tasks[t].pc = "loop"
        /\ stopEvent["backup"]
        /\ tasks[t].cyc.overslept = 1
        /\ tasks[t].left > 0

\* C16: in monitor mode the thread sleeps at most one second past a stop
\* request that arrives while it is inside its wait.
C16_MonitorWaitPreemptible ==
    \A t \in TaskIds :
        (tasks[t].mode = "monitor" /\ tasks[t].cyc.napClear)
            => tasks[t].cyc.overslept <= 1

\* C17: an object gets at most 3 download attempts in a cycle; the thread
\* waits 1 second before the second attempt and 2 seconds before the third;
\* the third failure is followed by no wait and is logged, with its own
\* exception, as the failure of the object.
C17_AttemptStep(t) ==
    LET me == tasks[t]
        key == CurObj(t).Key
    IN me.pc = "download" =>
           /\ now' = now
           /\ tasks'[t].pc = "backoff" => me.attempt \in {0, 1}
           /\ (tasks'[t] # me /\ tasks'[t].pc = "obj" /\ key \in tasks'[t].cyc.failed)
                  => /\ me.attempt = 2
                     /\ log'[me.mode] = Line("failed", t, key)
                     /\ tasks'[t].cyc.reported[key] \in
                            {"download_file raised", "File integrity check failed",
                             "'NoneType' object is not subscriptable"}
                     /\ files'[me.root] # files[me.root]
                            => tasks'[t].cyc.reported[key] # "download_file raised"
                     /\ (files'[me.root] # files[me.root]
                             /\ files'[me.root][key].size # CurObj(t).Size)
                            => tasks'[t].cyc.reported[key] = "File integrity check failed"
                     /\ (files'[me.root] # files[me.root]
                             /\ files'[me.root][key].size = CurObj(t).Size)
                            => tasks'[t].cyc.reported[key] =
                                   "'NoneType' object is not subscriptable"
C17_WaitStep(t) ==
    (tasks[t].pc = "backoff" /\ tasks'[t] # tasks[t])
        => /\ tasks[t].attempt = 0 => now' = now + 1
           /\ tasks[t].attempt = 1 => now' = now + 2
           /\ tasks[t].attempt \in {0, 1}
           /\ tasks'[t].pc = "download"
           /\ tasks'[t].attempt = tasks[t].attempt + 1
C17_ThreeAttemptsBackoff ==
    /\ [][\A t \in TaskIds : C17_AttemptStep(t) /\ C17_WaitStep(t)]_vars
    /\ [](\A t \in TaskIds : \A k \in Keys :
             /\ tasks[t].attempt \in 0..2
             /\ tasks[t].cyc.seq[k] <= 1)
\* the first object of a run failed three times with a network error: the
\* thread has waited 1 + 2 seconds and logged the failure
C17_Witness ==
    \E t \in TaskIds : \E k \in Keys :
        /\ Live(t)
        /\ tasks[t].cycles = 1
        /\ tasks[t].pc = "obj"
        /\ k \in tasks[t].cyc.failed
        /\ tasks[t].cyc.reported[k] = "download_file raised"
        /\ log[tasks[t].mode] = Line("failed", t, k)
        /\ now = 3

\* C18: a failure that belongs to one object (a download that raised, a file
\* of the wrong size, a failed move into .versions) leaves the thread inside
\* the pass: the step goes on with the object or with the next one, and a
\* pass that had such a failure, no failed listing request and no stop
\* request ends with every object of the bucket classified and the metadata
\* written.
C18_ObjectFailureStep(t) ==
    LET me == tasks[t]
    IN (/\ me.pc \in {"version", "download"}
        /\ \/ tasks'[t].cyc.failed # me.cyc.failed
           \/ tasks'[t].cyc.unversioned # me.cyc.unversioned
           \/ tasks'[t].pc = "backoff")
           => /\ tasks'[t].pc \in {"download", "backoff", "obj"}
              /\ tasks'[t].cycles = me.cycles
              /\ ~tasks'[t].cyc.error
C18_ObjectFailureKeepsCycle ==
    /\ [][\A t \in TaskIds : C18_ObjectFailureStep(t)]_vars
    /\ [](\A t \in TaskIds :
             (/\ Live(t)
              /\ tasks[t].pc = "sleep"
              /\ tasks[t].cyc.failed \cup tasks[t].cyc.unversioned # {}
              /\ ~tasks[t].cyc.listfail
              /\ ~tasks[t].cyc.cut)
                 => /\ tasks[t].cyc.saved # "no"
                    /\ \A k \in DOMAIN remote : tasks[t].cyc.cls[k] # "none")

\* C19: a thread started on a root whose .backup_metadata.json is absent,
\* unparseable or parseable but no document reaches its loop: the step that
\* loads the metadata logs the start line, adds no entry to the ones the
\* monitor holds and leaves the backup with no entry.
C19_StartupStep(t) ==
    (/\ tasks[t].pc = "init"
     /\ tasks'[t] # tasks[t]
     /\ metaFile[tasks[t].root].st # "doc")
        => /\ tasks'[t].pc = "loop"
           /\ log'[tasks[t].mode] = Line("started", t, <<>>)
           /\ monitorLast' = monitorLast
           /\ tasks'[t].backup_history = EmptyMap
C19_MalformedMetadataNeverFatal ==
    [][\A t \in TaskIds : C19_StartupStep(t)]_vars

\* C20: with a monitor and a backup running side by side on different
\* folders, the call that writes the metadata of a thread is handed the
\* entries of that thread, a document it leaves holds exactly these entries,
\* and the file of the other folder stays as it is.
C20_WriteStep(t) ==
    LET me == tasks[t]
    IN (/\ me.pc = "savewrite"
        /\ tasks'[t].pc = "sleep"
        /\ tasks'[t].cyc.saved # "not opened")
           => /\ Deref(backupMetadata) = Entries(t)
              /\ metaFile'[me.root].st = "doc" => metaFile'[me.root].files = Entries(t)
              /\ \A r \in Roots : r # me.root => metaFile'[r] = metaFile[r]
C20_EachDocumentHoldsItsOwnersEntries ==
    [][\A t \in TaskIds : C20_WriteStep(t)]_vars

\* C21: Start with an empty bucket name or an empty folder starts nothing:
\* every thread that exists was created with a folder and a bucket, and in a
\* session whose later presses of Start all come with an empty field, a
\* thread that has found the stop event set during a pass begins no further
\* cycle.
C21_InvalidStartStartsNothing ==
    /\ [](\A t \in TaskIds :
             tasks[t].pc # "none" => tasks[t].root # "" /\ tasks[t].bucket # "")
    /\ [][\A t \in TaskIds :
             tasks[t].cyc.cut => tasks'[t].cycles = tasks[t].cycles]_vars

\* C22: a thread that has reached its loop leaves it only with the stop
\* event of its mode set: the step that ends the thread starts at the loop
\* test with the event set and logs the termination line, that line is
\* logged by no other step, and a step in which a listing request, a
\* download, the size check or the metadata write fails leaves the thread
\* running.
C22_ExitStep(t) ==
    LET me == tasks[t]
        stopped == Line("stopped", t, <<>>)
    IN /\ (me.pc \notin {"done", "crashed"} /\ tasks'[t].pc \in {"done", "crashed"})
              => /\ me.pc \in {"loop", "init"}
                 /\ me.pc = "loop" => /\ tasks'[t].pc = "done"
                                      /\ stopEvent[me.mode]
                                      /\ log'[me.mode] = stopped
       /\ (me.pc # "none" /\ log'[me.mode] = stopped /\ log[me.mode] # stopped)
              => stopEvent[me.mode] /\ tasks'[t].pc = "done"
       /\ (\/ tasks'[t].cyc.error /\ ~me.cyc.error
           \/ tasks'[t].cyc.failed # me.cyc.failed /\ me.pc = "download"
           \/ me.pc = "savewrite" /\ tasks'[t].cyc.saved \in {"not opened", "truncated"})
              => Live(t) /\ tasks'[t].pc \notin {"none", "done", "crashed"}
C23_FailedObjectKeepsEntry ==
    \A t \in TaskIds : \A k \in Keys :
        (Live(t) /\ k \in tasks[t].cyc.failed)
            => /\ (k \in DOMAIN Entries(t)) = (k \in DOMAIN tasks[t].cyc.start)
               /\ k \in DOMAIN tasks[t].cyc.start => Entries(t)[k] = tasks[t].cyc.start[k]

\* C24: a step of a cycle that stores or replaces the entry of a key leaves
\* the local file of the key in place, with the size the entry records.
C24_CommitStep(t) ==
    LET me == tasks[t]
        before == Entries(t)
        after == EntriesAfter(t)
    IN \A k \in Keys :
           (/\ Live(t)
            /\ me.pc # "init"
            /\ k \in DOMAIN after
            /\ (k \notin DOMAIN before \/ after[k] # before[k]))
               => /\ me.pc = "download"
                  /\ k = CurObj(t).Key
                  /\ k \in DOMAIN files'[me.root]
                  /\ files'[me.root][k].size = after[k].size
C24_EntryWrittenForVerifiedFile ==
    [][\A t \in TaskIds : C24_CommitStep(t)]_vars
\* an entry was just stored for an object whose content the owner had changed
C24_Witness ==
    \E t \in TaskIds : \E k \in Keys :
        /\ Live(t)
        /\ log[tasks[t].mode] = Line("downloaded", t, k)
        /\ tasks[t].cyc.cls[k] = "Modified"
        /\ k \in DOMAIN Entries(t)
        /\ Entries(t)[k].size = files[tasks[t].root][k].size
        /\ Entries(t)[k].size # tasks[t].cyc.start[k].size

\* C25: when a monitor starts on a folder, the entries it holds after loading
\* are those of the folder's metadata document (none when there is no
\* document), whatever a monitor did earlier in the session on another
\* folder; an object that has no file in the folder is classified New.
C25_LoadStep(t) ==
    (/\ tasks[t].pc = "init"
     /\ tasks[t].mode = "monitor"
     /\ tasks'[t].pc = "loop")
        => monitorLast' = load_backup_metadata(metaFile[tasks[t].root]).files
C25_EntriesScopedToRoot ==
    /\ [][\A t \in TaskIds : C25_LoadStep(t)]_vars
    /\ [](\A t \in TaskIds : \A k \in Keys :
             (/\ Live(t)
              /\ tasks[t].mode = "monitor"
              /\ tasks[t].cyc.cls[k] # "none"
              /\ k \notin DOMAIN files[tasks[t].root])
                 => tasks[t].cyc.cls[k] = "New")

\* C26: the counter of consecutive failures grows only in the handler of a
\* cycle-level exception, by one; a step in which the retry loop of an object
\* ends in failure leaves the counter and the interval as they were, in both
\* modes.
C26_CounterStep(t) ==
    LET me == tasks[t]
    IN /\ tasks'[t].consecutive_errors > me.consecutive_errors
              => /\ tasks'[t].cyc.error /\ ~me.cyc.error
                 /\ tasks'[t].consecutive_errors = me.consecutive_errors + 1
       /\ (me.pc = "download" /\ tasks'[t].cyc.failed # me.cyc.failed)
              => /\ tasks'[t].consecutive_errors = me.consecutive_errors
                 /\ tasks'[t].interval = me.interval
C26_ObjectFailuresLeaveCounter ==
    [][\A t \in TaskIds : Live(t) => C26_CounterStep(t)]_vars

\* C27: a step that changes the interval of a thread, or logs that the
\* interval is increased, sets the interval to min(2 * old interval, cap),
\* with the cap 300 for the monitor and 60 for the backup, and sets the
\* counter of consecutive failures to zero.
C27_EscalationStep(t) ==
    LET me == tasks[t]
        cap == IF me.mode = "monitor" THEN 300 ELSE 60
        doubled == IF 2 * me.interval < cap THEN 2 * me.interval ELSE cap
    IN (/\ Live(t)
        /\ \/ tasks'[t].interval # me.interval
           \/ /\ log'[me.mode] = Line("increasing interval", t, <<>>)
              /\ log[me.mode] # Line("increasing interval", t, <<>>))
           => /\ tasks'[t].interval = doubled
              /\ tasks'[t].consecutive_errors = 0
              /\ tasks'[t].cyc.error
C27_DoubledAndCapped ==
    [][\A t \in TaskIds : C27_EscalationStep(t)]_vars
\* an escalation has left the interval of a backup at the cap
C27_Witness ==
    \E t \in TaskIds :
        /\ tasks[t].mode = "backup"
        /\ tasks[t].pc = "sleep"
        /\ log["backup"] = Line("increasing interval", t, <<>>)
        /\ tasks[t].interval = 60
        /\ tasks[t].consecutive_errors = 0

\* C28: an object whose stored entry is a bare timestamp is classified
\* Unchanged when that timestamp is the listed LastModified and Modified when
\* it is another one, whatever the listed ETag is.
C28_LegacyStep(t) ==
    LET obj == CurObj(t)
        key == obj.Key
        m == Entries(t)
    IN (/\ Classifies(t)
        /\ key \in DOMAIN m
        /\ m[key].kind = "legacy")
           => tasks'[t].cyc.cls[key] =
                  IF m[key].last_modified.v = obj.LastModified.v THEN "Unchanged"
                  ELSE "Modified"
C28_LegacyComparedOnTimestamp ==
    [][\A t \in TaskIds : C28_LegacyStep(t)]_vars

\* C29: the class an object is given is the class it would be given with any
\* other stored size, stored hash and stored download time in its entry and
\* with any other listed size: only the presence of the entry and the stored
\* and listed last_modified and etag decide.
C29_ClassifyStep(t) ==
    LET me == tasks[t]
        obj == CurObj(t)
        key == obj.Key
        m == Entries(t)
    IN Classifies(t) =>
           \A stored_size \in 0..3, listed_size \in 0..3, at \in {0, now + 1} :
               \A h \in {None, Str(0), Str(10 * obj.ETag + listed_size)} :
                   LET other == IF key \in DOMAIN m
                                THEN [m EXCEPT ![key] = [@ EXCEPT !.size = stored_size,
                                                                  !.hash = h, !.at = at]]
                                ELSE m
                       listed == [obj EXCEPT !.Size = listed_size]
                   IN tasks'[t].cyc.cls[key] = Classify(me.mode, other, listed)
C29_ClassIgnoresSizeAndHash ==
    [][\A t \in TaskIds : C29_ClassifyStep(t)]_vars
\* an object whose entry was stored without a hash has been classified
\* Unchanged, as it would have been with a hash
C29_Witness ==
    \E t \in TaskIds : \E k \in Keys :
        /\ Live(t)
        /\ tasks[t].cyc.cls[k] = "Unchanged"
        /\ k \in DOMAIN Entries(t)
        /\ Entries(t)[k].hash = None

\* C30: in backup mode a step that fails to move the existing local file of
\* an object into .versions writes the "version backup failed" line and
\* leaves the thread at the first download attempt of that object in the
\* same pass, and an object whose move failed has had a download attempt as
\* soon as the thread is past that point.
C30_MoveFailStep(t) ==
    LET me == tasks[t]
        key == me.objs[me.idx].Key
    IN (/\ me.pc = "version"
        /\ tasks'[t].cyc.unversioned # me.cyc.unversioned)
           => /\ log'["backup"] = Line("version backup failed", t, key)
              /\ tasks'[t].pc = "download"
              /\ tasks'[t].attempt = 0
              /\ tasks'[t].idx = me.idx
              /\ tasks'[t].cycles = me.cycles
C30_MoveFailureKeepsDownload ==
    /\ [][\A t \in TaskIds : C30_MoveFailStep(t)]_vars
    /\ [](\A t \in TaskIds : \A k \in tasks[t].cyc.unversioned :
             \/ k \in tasks[t].cyc.fetched
             \/ /\ tasks[t].pc = "download"
                /\ tasks[t].attempt = 0
                /\ tasks[t].objs[tasks[t].idx].Key = k)
\* the move of an object failed and a download attempt of it was made
C30_Witness ==
    \E t \in TaskIds : tasks[t].cyc.unversioned \cap tasks[t].cyc.fetched # {}

\* C31: a step in which the write of the metadata document failed has put
\* the line "error saving metadata" in main_log, a step in which the write of
\* a line to backup_log.txt failed has put "log write error" in the backup
\* log; either step leaves the entries, consecutive_errors and the interval of
\* the thread as they were and the thread where the successful step leaves it
\* (the end of the pass after the save, the first download attempt after the
\* move); and a pass that follows one whose metadata write failed and that
\* ends without a cycle-level failure has called the metadata write again.
C31_WriteFailStep(t) ==
    LET me == tasks[t]
        saveFailed == /\ me.pc = "savewrite"
                      /\ tasks'[t].cyc.saved \in {"not opened", "truncated"}
        logFailed == /\ me.pc \in {"savewrite", "version"}
                     /\ tasks'[t] # me
                     /\ log'["backup"] = Line("log write error", t, <<>>)
    IN /\ saveFailed => log'["main"] = Line("error saving metadata", t, <<>>)
       /\ (saveFailed \/ logFailed)
              => /\ EntriesAfter(t) = Entries(t)
                 /\ tasks'[t].consecutive_errors = me.consecutive_errors
                 /\ tasks'[t].interval = me.interval
                 /\ tasks'[t].cycles = me.cycles
                 /\ ~tasks'[t].cyc.error
                 /\ tasks'[t].pc = IF me.pc = "savewrite" THEN "sleep" ELSE "download"
C32_EntriesHaveLiveFiles ==
    \A t \in TaskIds :
        (Live(t) /\ tasks[t].pc = "sleep")
            => \A k \in DOMAIN Entries(t) :
                   Entries(t)[k].kind = "dict"
                       => /\ k \in DOMAIN files[tasks[t].root]
                          /\ files[tasks[t].root][k].size = Entries(t)[k].size

\* C33: whatever the order of the Start and Stop presses, no two live
\* threads have the same mode.
C33_OneLiveTaskPerMode ==
    \A t1 \in TaskIds : \A t2 \in TaskIds :
        (t1 # t2 /\ Live(t1) /\ Live(t2)) => tasks[t1].mode # tasks[t2].mode

C35_ArchiveStep(t) ==
    LET me == tasks[t]
        key == CurObj(t).Key
    IN (/\ me.pc = "version"
        /\ versions'[me.root] # versions[me.root])
           => /\ key \in DOMAIN me.backup_history
              /\ me.backup_history[key].kind = "dict"
              /\ files[me.root][key].size = me.backup_history[key].size
C35_OnlyVerifiedFilesArchived ==
    [][\A t \in TaskIds : C35_ArchiveStep(t)]_vars

\* C36: no step of a thread's lifetime makes its interval smaller, whatever
\* interval it was started with.
C36_IntervalNeverDecreases ==
    [][\A t \in TaskIds :
          (tasks[t].pc # "none" /\ tasks'[t].pc # "none")
              => tasks'[t].interval >= tasks[t].interval]_vars

\* C37: the monitor's file_changed and the backup's needs_backup agree: at
\* every classification step, for the listed object and for every stored
\* situation of its key (no entry, a bare timestamp, a full entry, with any
\* stored last_modified and etag, read from JSON or held in memory), both are
\* true or both are false, and the class the step assigns is the class the
\* other mode computes from the same entries.
C37_StoredSituations(m, obj) ==
    LET stamps == {Str(ts) : ts \in 1..(MaxStamp + MaxChanges)}
                      \cup {DateTime(ts) : ts \in 1..(MaxStamp + MaxChanges)}
    IN {MapDel(m, obj.Key)}
           \cup {MapPut(m, obj.Key, LegacyEntry(lm)) : lm \in stamps}
           \cup {MapPut(m, obj.Key, [FullEntry(obj, None, 0, 0) EXCEPT
                                        !.last_modified = lm, !.etag = e]) :
                     lm \in stamps, e \in Etags}
C37_ClassifyStep(t) ==
    LET me == tasks[t]
        obj == CurObj(t)
        other == IF me.mode = "monitor" THEN "backup" ELSE "monitor"
    IN Classifies(t) =>
           /\ tasks'[t].cyc.cls[obj.Key] = Classify(other, Entries(t), obj)
           /\ \A stored \in C37_StoredSituations(Entries(t), obj) :
                  /\ file_changed(stored, obj) <=> needs_backup(stored, obj)
                  /\ Classify("monitor", stored, obj) = Classify("backup", stored, obj)
C37_ModesClassifyAlike ==
    [][\A t \in TaskIds : C37_ClassifyStep(t)]_vars
\* a thread has classified an object with a bare timestamp as Modified, and a
\* thread has classified an object with a full entry as Unchanged
C37_Witness ==
    \E t \in TaskIds : \E k \in Keys :
        /\ tasks[t].cycles = 2
        /\ tasks[t].cyc.cls[k] = "Unchanged"
        /\ k \in DOMAIN tasks[t].cyc.start
        /\ tasks[t].cyc.start[k].kind = "dict"
        /\ metaFile[tasks[t].root].st # "absent"

\* C38: every step that moves a local file into .versions adds one file to
\* the archive and leaves the files that were in it as they were.
C38_MoveStep(t) ==
    LET r == tasks[t].root
    IN (/\ tasks[t].pc = "version"
        /\ tasks'[t].pc = "download"
        /\ tasks[t].objs[tasks[t].idx].Key \notin tasks'[t].cyc.unversioned)
           => /\ Cardinality(DOMAIN versions'[r]) = Cardinality(DOMAIN versions[r]) + 1
              /\ \A n \in DOMAIN versions[r] : versions'[r][n] = versions[r][n]
C38_MoveNeverOverwrites ==
    [][\A t \in TaskIds : C38_MoveStep(t)]_vars
====
